---- MODULE Spec2Model ----
(***************************************************************************)
(* A model of calver-release: the release orchestrator (calverRelease,     *)
(* runPlugins, getPlugins, analyzeStep) and the decision engine of         *)
(* release-core.js (getChangedPackages, analyzeCommits,                    *)
(* generateCalVerVersion, determineVersionFormat).                         *)
(*                                                                         *)
(* Text is modelled as a sequence of one-character strings, so that        *)
(* String.includes and path.basename are computed and not assumed.  The    *)
(* output of `git tag -l` is a sequence of tokens: tag records separated   *)
(* by the newline token NL.                                                *)
(***************************************************************************)
EXTENDS Integers, Sequences, FiniteSets, TLC

\* ------------------------------------------------------------------ bounds
MaxPlugins == 2      \* length of config.plugins
MaxReleases == 2     \* calls of generateCalVerVersion in one behaviour
MaxCommits == 2      \* lines of the commit log

\* ------------------------------------------------------------------ text
IsPrefixAt(s, sub, i) ==
    \* sub occurs in s starting at position i
    /\ i + Len(sub) - 1 <= Len(s)
    /\ \A k \in 1..Len(sub) : s[i + k - 1] = sub[k]

Includes(s, sub) ==
    \* String.prototype.includes
    \E i \in 1..(Len(s) + 1) : IsPrefixAt(s, sub, i)

StartsWith(s, sub) == IsPrefixAt(s, sub, 1)

LastIndexOf(s, ch) ==
    \* 0 when ch does not occur in s
    LET hits == {i \in 1..Len(s) : s[i] = ch}
    IN  IF hits = {} THEN 0 ELSE CHOOSE i \in hits : \A j \in hits : j <= i

Basename(p) ==
    \* path.basename for a path without trailing separator
    SubSeq(p, LastIndexOf(p, "/") + 1, Len(p))

dot == <<".">>
root == <<"r", "o", "o", "t">>
core == <<"c", "o", "r", "e">>
ui == <<"u", "i">>
packagesCore == <<"p", "k", "g", "/">> \o core
packagesUi == <<"p", "k", "g", "/">> \o ui
releaseSuffix == <<"-", "r", "e", "l", "e", "a", "s", "e">>
npm == <<"n", "p", "m">>
npmPluginId == <<"@", "c", "r", "/">> \o npm
gitPluginId == <<"@", "c", "r", "/", "g", "i", "t">>

\* --------------------------------------------------------------- versions
\* A year-month "YY.MM" is the pair <<YY, MM>>; both fields are always two
\* digits wide, so the string comparison of release-core.js is the
\* lexicographic comparison of the pair.
YearMonths == {<<25, 7>>, <<25, 8>>}

YMGreater(a, b) == a[1] > b[1] \/ (a[1] = b[1] /\ a[2] > b[2])

\* A CalVer version string "YY.MM.c3" (parts = 3) or "YY.MM.c3.c4"
\* (parts = 4).  parts = 0 stands for a version string that does not have
\* the CalVer shape (absent, or e.g. "1.0.0").
Version3(ym, patch) == [ym |-> ym, parts |-> 3, c3 |-> patch, c4 |-> 0]
Version4(ym, minor, patch) == [ym |-> ym, parts |-> 4, c3 |-> minor, c4 |-> patch]
NoVersion == [ym |-> <<0, 0>>, parts |-> 0, c3 |-> 0, c4 |-> 0]

MatchesCalVer(v) ==
    \* /^\d{2}\.\d{2}\.\d+(\.\d+)?$/
    v.parts \in {3, 4}

\* ------------------------------------------------------------------- tags
\* A tag of the repository: `v-<version>` (name = <<>>) or
\* `v-<version>-<name>-release`.
TagOf(version, packageName) == [kind |-> "tag", ver |-> version, name |-> packageName]
NL == [kind |-> "nl"]

tagName(version, packageName) ==
    \* packageName ? `v-${version}-${packageName}-release` : `v-${version}`
    TagOf(version, packageName)

TagTail(t) ==
    \* the text of a tag after its version
    IF t.name = <<>> THEN <<>> ELSE <<"-">> \o t.name \o releaseSuffix

TailRank(t) ==
    \* what follows the third field: end of name < "-" < "."
    IF t.ver.parts = 4 THEN 2 ELSE IF t.name = <<>> THEN 0 ELSE 1

VersionSortHigher(a, b) ==
    \* a sorts before b under `git tag -l --sort=-version:refname`
    \/ YMGreater(a.ver.ym, b.ver.ym)
    \/ /\ a.ver.ym = b.ver.ym
       /\ \/ a.ver.c3 > b.ver.c3
          \/ /\ a.ver.c3 = b.ver.c3
             /\ \/ TailRank(a) > TailRank(b)
                \/ /\ TailRank(a) = 2 /\ TailRank(b) = 2
                   /\ \/ a.ver.c4 > b.ver.c4
                      \/ a.ver.c4 = b.ver.c4 /\ a.name # <<>> /\ b.name = <<>>

RECURSIVE SortedTags(_)
SortedTags(S) ==
    \* Tags that differ only in the package name are listed in the byte
    \* order of the names; the resolver reads the version of the first line
    \* and searches the whole output, so that order is left to CHOOSE.
    IF S = {} THEN <<>>
    ELSE LET m == CHOOSE x \in S : \A y \in S : ~VersionSortHigher(y, x)
         IN  <<m>> \o SortedTags(S \ {m})

RECURSIVE JoinLines(_)
JoinLines(lines) ==
    IF lines = <<>> THEN <<>>
    ELSE <<Head(lines), NL>> \o JoinLines(Tail(lines))

gitTagList(S) ==
    \* stdout of `git tag -l --sort=-version:refname`
    JoinLines(SortedTags(S))

\* ---------------------------------------------------------- format choice
ThreePart == "YY.MM.PATCH"
FourPart == "YY.MM.MINOR.PATCH"

\* A plugin definition of the configuration: a string, an array
\* [name, options] or an object {path, options}.
PluginDefinition(form, name) == [form |-> form, name |-> name]

PluginNameOf(plugin) ==
    \* the text that is searched: the string itself, plugin[0], plugin.path
    \* (an object without a path is not searched)
    IF plugin.form \in {"string", "array", "object"} THEN plugin.name ELSE <<>>

determineVersionFormatIgnoresExplicit(options) ==
    IF options.pluginsGiven
          /\ \E i \in 1..Len(options.plugins) :
                Includes(PluginNameOf(options.plugins[i]), npm)
    THEN ThreePart
    ELSE FourPart

determineVersionFormat(options) ==
    IF options.versionFormat # "" /\ options.versionFormat # "auto"
    THEN options.versionFormat
    ELSE IF options.pluginsGiven
               /\ \E i \in 1..Len(options.plugins) :
                     Includes(PluginNameOf(options.plugins[i]), npm)
         THEN ThreePart
         ELSE FourPart

\* ------------------------------------------------------- version resolver
RECURSIVE SplitOn(_, _)
SplitOn(text, sep) ==
    \* String.prototype.split on a separator token: the pieces between the
    \* occurrences of sep (one piece, the whole text, when sep does not occur)
    LET hits == {i \in 1..Len(text) : text[i] = sep}
    IN  IF hits = {} THEN <<text>>
        ELSE LET i == CHOOSE h \in hits : \A g \in hits : h <= g
             IN  <<SubSeq(text, 1, i - 1)>> \o SplitOn(SubSeq(text, i + 1, Len(text)), sep)

BackslashN == [kind |-> "backslash-n"]

TagSeparator ==
    \* tagOutput.split('\\n'): the separator is the two characters
    \* backslash and n, which no line of `git tag -l` holds
    BackslashN

IsBlank(piece) ==
    \* !piece.trim()
    \A i \in 1..Len(piece) : piece[i] = NL

MatchesUnscopedTag(piece) ==
    \* piece.match(/^v-\d{2}\.\d{2}\.\d+(\.\d+)?$/): the whole piece is one
    \* unscoped CalVer tag, nothing before and nothing (no newline) after
    /\ Len(piece) = 1
    /\ piece[1].kind = "tag"
    /\ piece[1].name = <<>>
    /\ MatchesCalVer(piece[1].ver)

PieceIncludes(piece, needle) ==
    \* piece.includes(needle) for a needle "-<name>-release": it can only
    \* occur in the text of a line after the version
    \E i \in 1..Len(piece) : piece[i].kind = "tag" /\ Includes(TagTail(piece[i]), needle)

ExtractVersion(piece, packageName) ==
    IF packageName # <<>>
    THEN \* piece.match(/^v-(\d{2}\.\d{2}\.\d+(?:\.\d+)?)-/): anchored at the
         \* start of the piece, the version must be followed by "-"
         IF Len(piece) > 0 /\ piece[1].kind = "tag" /\ piece[1].name # <<>>
                /\ MatchesCalVer(piece[1].ver)
         THEN piece[1].ver ELSE NoVersion
    ELSE \* piece.replace(/^v-/, ''), only reached when MatchesUnscopedTag
         piece[1].ver

existingTagsOf(tagOutput, packagePath) ==
    LET packageName == IF packagePath = dot THEN <<>> ELSE Basename(packagePath)
        pieces == SelectSeq(SplitOn(tagOutput, TagSeparator), LAMBDA t : ~IsBlank(t))
        kept == SelectSeq(pieces, LAMBDA t :
                    IF packageName # <<>>
                    THEN PieceIncludes(t, <<"-">> \o packageName \o releaseSuffix)
                    ELSE MatchesUnscopedTag(t))
        versions == [i \in 1..Len(kept) |-> ExtractVersion(kept[i], packageName)]
    IN  SelectSeq(versions, MatchesCalVer)

isAutoMonthUpdateOf(options, packageJsonVersion, currentYearMonth) ==
    /\ MatchesCalVer(packageJsonVersion)
    /\ options.autoUpdateMonth
    /\ YMGreater(currentYearMonth, packageJsonVersion.ym)

targetYearMonthIgnoresDeclared(options, packageJsonVersion, currentYearMonth) ==
    currentYearMonth

targetYearMonthOf(options, packageJsonVersion, currentYearMonth) ==
    IF MatchesCalVer(packageJsonVersion)
           /\ ~isAutoMonthUpdateOf(options, packageJsonVersion, currentYearMonth)
    THEN packageJsonVersion.ym
    ELSE currentYearMonth

isManualBumpOf(options, existingTags, packageJsonVersion, currentYearMonth) ==
    /\ MatchesCalVer(packageJsonVersion)
    /\ ~isAutoMonthUpdateOf(options, packageJsonVersion, currentYearMonth)
    /\ Len(existingTags) > 0
    /\ existingTags[1].ym # targetYearMonthOf(options, packageJsonVersion, currentYearMonth)

currentMonthTagsOf(options, existingTags, targetYearMonth) ==
    LET isNpmCompatible == determineVersionFormat(options) = ThreePart
    IN  SelectSeq(existingTags, LAMBDA t :
            /\ t.ym = targetYearMonth
            /\ t.parts = (IF isNpmCompatible THEN 3 ELSE 4))

generateCalVerVersion(releaseType, packagePath, options, tagOutput, packageJsonVersion, currentYearMonth) ==
    LET isNpmCompatible == determineVersionFormat(options) = ThreePart
        existingTags == existingTagsOf(tagOutput, packagePath)
        targetYearMonth == targetYearMonthOf(options, packageJsonVersion, currentYearMonth)
        isAutoMonthUpdate == isAutoMonthUpdateOf(options, packageJsonVersion, currentYearMonth)
        isManualBump == isManualBumpOf(options, existingTags, packageJsonVersion, currentYearMonth)
        currentMonthTags == currentMonthTagsOf(options, existingTags, targetYearMonth)
    IN  IF Len(currentMonthTags) = 0 \/ isManualBump \/ isAutoMonthUpdate
        THEN IF isNpmCompatible
             THEN Version3(targetYearMonth, 1)
             ELSE Version4(targetYearMonth, 0, 1)
        ELSE LET latestTag == currentMonthTags[1]
             IN  IF isNpmCompatible
                 THEN Version3(targetYearMonth, latestTag.c3 + 1)
                 ELSE IF releaseType = "minor" \/ releaseType = "major"
                      THEN Version4(targetYearMonth, latestTag.c3 + 1, 1)
                      ELSE Version4(targetYearMonth, latestTag.c3, latestTag.c4 + 1)

\* ---------------------------------------------------------------- commits
\* A line of `git log --oneline` is "<hash> <message>".  The message is the
\* text  type [ "(" scope ")" ] [ "!" ] ": " description ; type "misc" is a
\* message without a conventional prefix.  The description is one of:
\*   "plain"            no marker
\*   "BREAKING CHANGE:" holds the footer token with its colon
\*   "BREAKING CHANGE"  holds the words without the colon
\*   "!:"               holds the two characters "!:"
CommitTypes == {"feat", "fix", "perf", "chore", "misc"}
Descriptions == {"plain", "BREAKING CHANGE:", "BREAKING CHANGE", "!:"}
Scopes == {<<>>, core, ui}
HashPrefixLen == 8
TypeLen == [t \in CommitTypes |-> IF t = "fix" THEN 3 ELSE IF t = "chore" THEN 5 ELSE 4]

Commit(type, scope, bang, desc) ==
    \* a line with the 7-character abbreviated hash git prints by default
    [hashLen |-> 7, type |-> type, scope |-> scope, bang |-> bang, desc |-> desc]

HasPrefix(m) == m.type # "misc"

ScopeOf(m) ==
    \* message.match(/^\w+\(([^)]+)\):/): the scope, <<>> when no match
    IF HasPrefix(m) /\ m.scope # <<>> /\ ~m.bang THEN m.scope ELSE <<>>

MatchesType(m, type) ==
    \* message.match(/^<type>(\(.+\))?:/)
    HasPrefix(m) /\ m.type = type /\ ~m.bang

IncludesBreakingWords(m) ==
    \* message.includes('BREAKING CHANGE')
    m.desc \in {"BREAKING CHANGE:", "BREAKING CHANGE"}

IncludesBreakingFooter(m) ==
    \* message.includes('BREAKING CHANGE:')
    m.desc = "BREAKING CHANGE:"

MatchesBang(m) ==
    \* message.match(/^.+!:/)
    (HasPrefix(m) /\ m.bang) \/ m.desc = "!:"

Annotation(m) ==
    \* the emoji prefix of the releaseCommits entry, "" when none is pushed
    IF MatchesType(m, "feat") THEN "feat"
    ELSE IF MatchesType(m, "fix") THEN "fix"
    ELSE IF MatchesType(m, "perf") THEN "perf"
    ELSE IF IncludesBreakingWords(m) \/ MatchesBang(m) THEN "breaking"
    ELSE ""

AffectsPackage(m, packagePath) ==
    \* the monorepo filter at the top of the loop of analyzeCommits
    \/ packagePath = dot
    \/ ScopeOf(m) = <<>>
    \/ ScopeOf(m) = Basename(packagePath)
    \/ Includes(ScopeOf(m), Basename(packagePath))

NoAnalysis == [shouldRelease |-> FALSE]

releaseTypeFeatureFirst(hasBreakingChange, hasFeature) ==
    IF hasFeature THEN "minor" ELSE IF hasBreakingChange THEN "major" ELSE "patch"

releaseTypeOf(hasBreakingChange, hasFeature) ==
    \* hasBreakingChange ? 'major' : hasFeature ? 'minor' : 'patch'
    IF hasBreakingChange THEN "major" ELSE IF hasFeature THEN "minor" ELSE "patch"

analyzeCommits(commitMessages, packagePath) ==
    LET commits == SelectSeq(commitMessages, LAMBDA c : AffectsPackage(c, packagePath))
        idx == 1..Len(commits)
        hasFeature == \E i \in idx : Annotation(commits[i]) = "feat"
        hasFix == \E i \in idx : Annotation(commits[i]) \in {"fix", "perf"}
        hasBreakingChange == \E i \in idx :
            Annotation(commits[i]) = "breaking" \/ IncludesBreakingFooter(commits[i])
        annotated == SelectSeq(commits, LAMBDA c : Annotation(c) # "")
        releaseCommits == [i \in 1..Len(annotated) |->
                              [prefix |-> Annotation(annotated[i]), message |-> annotated[i]]]
        shouldRelease == hasFeature \/ hasFix \/ hasBreakingChange \/ Len(releaseCommits) > 0
    IN  IF ~shouldRelease THEN NoAnalysis
        ELSE [shouldRelease |-> TRUE,
              releaseType |-> releaseTypeOf(hasBreakingChange, hasFeature),
              hasBreakingChange |-> hasBreakingChange,
              hasFeature |-> hasFeature,
              hasFix |-> hasFix,
              releaseCommits |-> releaseCommits]

\* --------------------------------------------------------------- packages
rootPackage == [name |-> root, path |-> dot]
corePackage == [name |-> core, path |-> packagesCore]
uiPackage == [name |-> ui, path |-> packagesUi]
\* a package whose descriptor names it "@s/ui" (name: packageJson.name || dir)
scopedUiPackage == [name |-> <<"@", "s", "/">> \o ui, path |-> packagesUi]

discoverWorkspaces(workspace) ==
    \* the package list found on disk; the single-package list when no
    \* monorepo configuration is detected or reading it raises (the catch)
    IF workspace.type = "single" THEN <<rootPackage>>
    ELSE IF ~workspace.readable THEN <<rootPackage>>
    ELSE workspace.packages

\* The files the workspace resolver reads:
\*   marker          the first monorepo marker file that exists, or "none"
\*   readable        whether that marker file can be read and parsed
\*   rootDescriptor  the root package.json: "missing", "malformed" (not
\*                   JSON), "plain" (no workspaces field) or "workspaces"
\*   core, ui        the package.json of pkg/core and pkg/ui: "ok",
\*                   "malformed" or "missing"
MarkerTypes == {"lerna", "nx", "rush", "pnpmWorkspace"}

FileSystems ==
    [marker : MarkerTypes \cup {"none"},
     readable : BOOLEAN,
     rootDescriptor : {"missing", "malformed", "plain", "workspaces"},
     core : {"ok", "malformed", "missing"},
     ui : {"ok", "malformed", "missing"}]

detectMonorepoConfig(files) ==
    \* the marker files in order, then JSON.parse of the root package.json,
    \* which is not inside a try block
    IF files.marker # "none" THEN [raised |-> FALSE, type |-> files.marker]
    ELSE IF files.rootDescriptor = "missing" THEN [raised |-> FALSE, type |-> "single"]
    ELSE IF files.rootDescriptor = "malformed" THEN [raised |-> TRUE, type |-> "none"]
    ELSE IF files.rootDescriptor = "workspaces"
         THEN [raised |-> FALSE, type |-> "npmWorkspaces"]
         ELSE [raised |-> FALSE, type |-> "single"]

expandGlobPatterns(files) ==
    \* the directories of pkg/ in order, each pushed when its package.json
    \* exists and parses; a package.json that does not parse raises, which
    \* ends the pattern with the packages pushed so far
    (IF files.core = "ok" THEN <<corePackage>> ELSE <<>>)
    \o (IF files.core # "malformed" /\ files.ui = "ok" THEN <<uiPackage>> ELSE <<>>)

WorkspaceOn(files, monorepoConfig) ==
    \* what discoverWorkspaces finds for the detected type: lerna, nx (no
    \* workspaceLayout) and npmWorkspaces expand their patterns; rush has no
    \* case in the switch; the pnpm patterns are never matched by
    \* /packages:\\s*(...)/, whose \\s is a backslash and an s
    [type |-> monorepoConfig.type,
     readable |-> monorepoConfig.type \in {"single", "npmWorkspaces"} \/ files.readable,
     packages |-> IF monorepoConfig.type \in {"lerna", "nx", "npmWorkspaces"}
                  THEN expandGlobPatterns(files) ELSE <<>>]

RECURSIVE AddAll(_, _)
AddAll(list, items) ==
    \* Set.add for each item: insertion order, no duplicates
    IF items = <<>> THEN list
    ELSE AddAll(IF \E i \in 1..Len(list) : list[i] = Head(items)
                THEN list ELSE Append(list, Head(items)),
                Tail(items))

FirstMatch(packages, P(_)) ==
    \* packages.find(P) as a list of zero or one package
    LET hits == {i \in 1..Len(packages) : P(packages[i])}
    IN  IF hits = {} THEN <<>>
        ELSE <<packages[CHOOSE i \in hits : \A j \in hits : i <= j]>>

FileOwner(packages, changedFilesOutput) ==
    \* changedFiles is the diff output split on '\\n', so one element, the
    \* whole output, whose start is the first path: the first package whose
    \* directory holds that path is added
    IF changedFilesOutput = <<>> THEN <<>>
    ELSE FirstMatch(packages, LAMBDA pkg :
            pkg.path = dot \/ StartsWith(changedFilesOutput[1], pkg.path \o <<"/">>))

ScopeInChangeSet(c) ==
    \* commit.substring(8) followed by /^\w+\(([^)]+)\):/ : a longer hash
    \* leaves " <message>" or the end of the hash and a space in front, a
    \* shorter one cuts the first characters of the type
    LET cut == HashPrefixLen - (c.hashLen + 1)
    IN  IF cut = 0 \/ (cut > 0 /\ cut < TypeLen[c.type]) THEN ScopeOf(c) ELSE <<>>

RECURSIVE ScopeOwners(_, _)
ScopeOwners(packages, commits) ==
    IF commits = <<>> THEN <<>>
    ELSE LET scope == ScopeInChangeSet(Head(commits))
             found == IF scope = <<>> THEN <<>>
                      ELSE FirstMatch(packages, LAMBDA pkg :
                               \/ Includes(pkg.name, scope)
                               \/ Includes(pkg.path, scope)
                               \/ Basename(pkg.path) = scope)
         IN  found \o ScopeOwners(packages, Tail(commits))

returnsDetected(detected, packages) ==
    detected

failsOpen(detected, packages) ==
    \* return result.length > 0 ? result : packages
    IF Len(detected) > 0 THEN detected ELSE packages

getChangedPackages(packages, commitMessages, changedFilesOutput, diffFails) ==
    IF Len(packages) = 1 /\ packages[1].name = root THEN packages
    ELSE IF diffFails THEN packages
    ELSE failsOpen(AddAll(AddAll(<<>>, FileOwner(packages, changedFilesOutput)),
                          ScopeOwners(packages, commitMessages)),
                   packages)

\* ---------------------------------------------------------------- analyze
NoRelease == [type |-> "none"]
NotesUnset == <<"unset">>

ReleaseOf(pkg, analysis, version) ==
    LET packageName == IF pkg.name = root THEN <<>> ELSE pkg.name
    IN  [package |-> pkg,
         analysis |-> analysis,
         version |-> version,
         packageName |-> packageName,
         tagName |-> tagName(version, packageName),
         name |-> IF packageName # <<>> THEN packageName ELSE root]

RECURSIVE ReleasesOf(_, _, _, _, _, _)
ReleasesOf(packagesToRelease, commits, options, tagOutput, packageJson, currentYearMonth) ==
    IF packagesToRelease = <<>> THEN <<>>
    ELSE LET pkg == Head(packagesToRelease)
             analysis == analyzeCommits(commits, pkg.path)
             rest == ReleasesOf(Tail(packagesToRelease), commits, options,
                                tagOutput, packageJson, currentYearMonth)
         IN  IF analysis.shouldRelease
             THEN <<ReleaseOf(pkg, analysis,
                        generateCalVerVersion(analysis.releaseType, pkg.path, options,
                            tagOutput, packageJson[pkg.path], currentYearMonth))>> \o rest
             ELSE rest

analyzeStep(options, e, tagOutput, packageJson) ==
    LET packages == discoverWorkspaces(e.workspace)
        packagesToRelease ==
            getChangedPackages(packages, e.commits, e.changedFiles, e.diffFails)
        releases == ReleasesOf(packagesToRelease, e.commits, options, tagOutput,
                               packageJson, e.now)
    IN  IF e.commits = <<>> \/ Len(packagesToRelease) = 0 \/ Len(releases) = 0
        THEN [shouldRelease |-> FALSE, nextRelease |-> NoRelease]
        ELSE [shouldRelease |-> TRUE,
              nextRelease |-> [type |-> IF Len(releases) = 1 THEN "single" ELSE "multi",
                               releases |-> releases,
                               notes |-> NotesUnset]]

\* ---------------------------------------------------------------- plugins
HookNames == {"verifyConditions", "analyzeCommits", "verifyRelease", "generateNotes",
              "prepare", "publish", "success", "fail"}

\* The plugins a configuration can name: an identifier and the lifecycle
\* methods the loaded plugin object has.
pluginA == [id |-> npmPluginId, loads |-> TRUE,
            hooks |-> {"verifyConditions", "verifyRelease", "prepare", "publish", "fail"}]
pluginB == [id |-> gitPluginId, loads |-> TRUE, hooks |-> HookNames]

\* An external plugin whose module cannot be required.
missingPluginId == <<"m", "i", "s", "s", "i", "n", "g">>
pluginMissing == [id |-> missingPluginId, loads |-> FALSE, hooks |-> {}]
PluginUniverse == {pluginA, pluginB, pluginMissing}

RECURSIVE PluginLists(_)
PluginLists(n) ==
    \* the lists of at most n distinct plugins
    IF n = 0 THEN {<<>>}
    ELSE LET shorter == PluginLists(n - 1)
         IN  shorter \cup
             {Append(l, q) : l \in {x \in shorter : Len(x) = n - 1},
                             q \in PluginUniverse}

RECURSIVE Registered(_, _, _)
Registered(plugins, hook, i) ==
    \* the positions, from i on, of the plugins that have the method
    IF i > Len(plugins) THEN <<>>
    ELSE (IF hook \in plugins[i].hooks THEN <<i>> ELSE <<>>)
         \o Registered(plugins, hook, i + 1)

loadPluginIgnoresFailure(plugin) ==
    \* a plugin that cannot be loaded is left out
    FALSE

loadPlugin(plugin) ==
    \* TRUE when loading throws `Failed to load plugin "<name>": ...`
    ~plugin.loads

LoadFailure(cfg) ==
    \* the first plugin of config.plugins whose load throws, 0 when all load
    LET failing == {i \in 1..Len(cfg.plugins) : loadPlugin(cfg.plugins[i])}
    IN  IF failing = {} THEN 0 ELSE CHOOSE i \in failing : \A j \in failing : i <= j

LoadError(i) == [stage |-> "load", plugin |-> i, call |-> 0]

getPlugins(cfg) ==
    \* the PluginCollection: per lifecycle step the plugins that registered
    \* a function for it, in the order of config.plugins
    [h \in HookNames |-> Registered(cfg.plugins, h, 1)]

\* ------------------------------------------------------------------ state
VARIABLES
    config,       \* the merged configuration: plugins, dryRun, autoUpdateMonth, versionFormat
    env,          \* what the run reads from outside: workspace, commits, changed files, date
    tags,         \* the tags of the repository
    packageJson,  \* the declared version of each package descriptor
    pc,           \* the lifecycle step calverRelease is in
    idx,          \* hooks of the current step already invoked by runPlugins
    active,       \* invoked hooks that have not completed
    calls,        \* every hook invocation so far, in order
    threw,        \* the invocations that ended by raising an error
    entered,      \* the lifecycle steps entered so far, in order
    results,      \* runPlugins' results of the current step
    publishResult,\* the results kept from the publish step
    nextRelease,  \* ctx.nextRelease
    caught,       \* the error caught by calverRelease's catch block
    raised,       \* the error the call to calverRelease ends with
    result,       \* the value the call to calverRelease returns
    emitted       \* the version computations made so far (resolver runs)

vars == <<config, env, tags, packageJson, pc, idx, active, calls, threw, entered, results,
          publishResult, nextRelease, caught, raised, result, emitted>>

inputVars == <<config, env, tags, packageJson>>
runVars == <<pc, idx, active, calls, threw, entered, results, publishResult, nextRelease,
             caught, raised, result>>

NoError == [stage |-> "none", plugin |-> 0, call |-> 0]
NoResult == [released |-> FALSE, returned |-> FALSE]
Undefined == [defined |-> FALSE, text |-> <<>>]
Text(t) == [defined |-> TRUE, text |-> t]

HookStages == {"verifyConditions", "verifyRelease", "generateNotes",
               "prepare", "publish", "success", "fail"}

StageList(stage) == getPlugins(config)[stage]

Paths == {dot, packagesCore, packagesUi}

\* ----------------------------------------------------------------- inputs
featCore == Commit("feat", core, FALSE, "plain")
choreAny == Commit("chore", <<>>, FALSE, "plain")

RECURSIVE LogsOver(_, _)
LogsOver(samples, n) ==
    \* the commit logs of at most n lines, each line one of the samples
    IF n = 0 THEN {<<>>}
    ELSE LET shorter == LogsOver(samples, n - 1)
         IN  shorter \cup
             {Append(l, c) : l \in {x \in shorter : Len(x) = n - 1},
                             c \in samples}

\* The logs of a run: nothing since the last release, maintenance only, a
\* feature of core, both.
RunLogs == {<<>>, <<choreAny>>, <<featCore>>, <<featCore, choreAny>>}

\* Commit lines for the classifier alone: every type with every scope, the
\* "!" suffix with and without a scope, and the breaking texts on a
\* feature, a maintenance and an unprefixed message.
ClassifierSamples ==
    {Commit(t, sc, FALSE, "plain") : t \in CommitTypes, sc \in Scopes}
    \cup {Commit("feat", <<>>, TRUE, "plain"), Commit("feat", core, TRUE, "plain"),
          Commit("chore", <<>>, TRUE, "plain")}
    \cup {Commit(t, <<>>, FALSE, d) : t \in {"feat", "chore", "misc"},
                                      d \in Descriptions \ {"plain"}}

singleWorkspace == [type |-> "single", readable |-> TRUE, packages |-> <<>>]
monoWorkspace == [type |-> "lerna", readable |-> TRUE, packages |-> <<corePackage, uiPackage>>]
emptyWorkspace == [type |-> "lerna", readable |-> TRUE, packages |-> <<>>]
namedWorkspace == [type |-> "lerna", readable |-> TRUE, packages |-> <<corePackage, scopedUiPackage>>]

Options(cfg) ==
    \* the options generateCalVerVersion and determineVersionFormat read
    [versionFormat |-> cfg.versionFormat,
     autoUpdateMonth |-> cfg.autoUpdateMonth,
     pluginsGiven |-> TRUE,
     plugins |-> [i \in 1..Len(cfg.plugins) |->
                     PluginDefinition("string", cfg.plugins[i].id)]]

RunIdle ==
    /\ idx = 0
    /\ active = {}
    /\ calls = <<>>
    /\ threw = {}
    /\ entered = <<>>
    /\ results = <<>>
    /\ publishResult = <<>>
    /\ nextRelease = NoRelease
    /\ caught = NoError
    /\ raised = NoError
    /\ result = NoResult

Init ==
    /\ config \in [plugins : PluginLists(MaxPlugins),
                   dryRun : BOOLEAN,
                   autoUpdateMonth : {FALSE},
                   versionFormat : {"auto"}]
    /\ env \in [workspace : {singleWorkspace, monoWorkspace, emptyWorkspace},
                commits : RunLogs,
                changedFiles : {<<>>},
                diffFails : {FALSE},
                now : {<<25, 8>>}]
    /\ \E released \in BOOLEAN :
        \* a repository without a release, or one with a first release of core
        /\ tags = IF released THEN {TagOf(Version4(<<25, 7>>, 0, 1), core)} ELSE {}
        /\ packageJson = [p \in Paths |->
                             IF released THEN Version4(<<25, 7>>, 0, 1) ELSE NoVersion]
    /\ pc = "start"
    /\ RunIdle
    /\ emitted = <<>>

\* ------------------------------------------------------------ calverRelease
Start ==
    \* getConfig, getPlugins, then step 1; getPlugins is awaited before the
    \* try block, so a load error leaves calverRelease at once
    /\ pc = "start"
    /\ IF LoadFailure(config) # 0
       THEN /\ pc' = "done"
            /\ raised' = LoadError(LoadFailure(config))
            /\ UNCHANGED entered
       ELSE /\ pc' = "verifyConditions"
            /\ entered' = <<"verifyConditions">>
            /\ UNCHANGED raised
    /\ UNCHANGED <<inputVars, idx, active, calls, threw, results, publishResult, nextRelease,
                   caught, result, emitted>>

startsWithoutAwait(running) ==
    \* the hook's promise is not awaited
    TRUE

awaitsHook(running) ==
    \* `await plugin(ctx, ...args)`: the loop goes on when the hook is done
    running = {}

InvokeHook ==
    \* one turn of runPlugins' loop up to the await
    /\ pc \in HookStages
    /\ idx < Len(StageList(pc))
    /\ awaitsHook(active)
    /\ calls' = Append(calls, [stage |-> pc,
                               plugin |-> StageList(pc)[idx + 1],
                               error |-> IF pc = "fail" THEN caught ELSE NoError])
    /\ active' = active \cup {Len(calls) + 1}
    /\ idx' = idx + 1
    /\ UNCHANGED <<inputVars, pc, threw, entered, results, publishResult, nextRelease,
                   caught, raised, result, emitted>>

ReturnValues(c) ==
    \* what a hook resolves to, by the Plugin interface: a string (or nothing)
    \* for generateNotes, an array of results for publish, void otherwise
    IF calls[c].stage = "generateNotes"
    THEN {Undefined, Text(<<>>), Text(<<calls[c].plugin>>)}
    ELSE IF calls[c].stage = "publish"
         THEN {Text(<<>>), Text(<<calls[c].plugin>>)}
         ELSE {Undefined}

HookReturns ==
    /\ \E c \in active : \E value \in ReturnValues(c) :
        /\ active' = active \ {c}
        /\ results' = IF value.defined THEN Append(results, value) ELSE results
    /\ UNCHANGED <<inputVars, pc, idx, calls, threw, entered, publishResult, nextRelease,
                   caught, raised, result, emitted>>

ErrorOf(c) == [stage |-> calls[c].stage, plugin |-> calls[c].plugin, call |-> c]

runPluginsSwallows ==
    \* the catch of runPlugins logs the error and goes on
    FALSE

runPluginsRethrows ==
    \* the catch of runPlugins logs and throws the error again
    TRUE

HookThrows ==
    \* a hook of a step inside the try block rejects
    /\ pc \in HookStages \ {"fail"}
    /\ \E c \in active :
        /\ threw' = threw \cup {c}
        /\ IF runPluginsRethrows
           THEN /\ caught' = ErrorOf(c)
                /\ pc' = "fail"
                /\ entered' = Append(entered, "fail")
                /\ idx' = 0
                /\ active' = {}
                /\ results' = <<>>
           ELSE /\ active' = active \ {c}
                /\ UNCHANGED <<caught, pc, entered, idx, results>>
    /\ UNCHANGED <<inputVars, calls, publishResult, nextRelease, raised, result, emitted>>

FailHookThrows ==
    \* a failure hook rejects: runPlugins throws out of the catch block
    /\ pc = "fail"
    /\ \E c \in active :
        /\ threw' = threw \cup {c}
        /\ raised' = ErrorOf(c)
        /\ active' = {}
    /\ pc' = "done"
    /\ UNCHANGED <<inputVars, idx, calls, entered, results, publishResult, nextRelease,
                   caught, result, emitted>>

StageComplete ==
    \* runPlugins returns: every hook of the step was invoked and is done
    /\ pc \in HookStages
    /\ idx = Len(StageList(pc))
    /\ active = {}

Enter(stage) ==
    /\ pc' = stage
    /\ entered' = Append(entered, stage)
    /\ idx' = 0
    /\ results' = <<>>

VerifyConditionsDone ==
    /\ StageComplete
    /\ pc = "verifyConditions"
    /\ pc' = "analyze"
    /\ entered' = Append(entered, "analyze")
    /\ UNCHANGED <<inputVars, idx, active, calls, threw, results, publishResult, nextRelease,
                   caught, raised, result, emitted>>

goesOnWithoutRelease(analysis) ==
    \* the early return is missing
    FALSE

stopsWithoutRelease(analysis) ==
    \* if (!analysis.shouldRelease) return { released: false }
    ~analysis.shouldRelease

Analyze ==
    \* step 2: analyzeStep, then either the early return or step 3
    /\ pc = "analyze"
    /\ LET analysis == analyzeStep(Options(config), env, gitTagList(tags), packageJson)
       IN  IF stopsWithoutRelease(analysis)
           THEN /\ pc' = "done"
                /\ result' = [released |-> FALSE, returned |-> TRUE]
                /\ UNCHANGED <<nextRelease, entered, idx, results>>
           ELSE /\ nextRelease' = analysis.nextRelease
                /\ Enter("verifyRelease")
                /\ UNCHANGED result
    /\ UNCHANGED <<inputVars, active, calls, threw, publishResult, caught, raised, emitted>>

VerifyReleaseDone ==
    /\ StageComplete
    /\ pc = "verifyRelease"
    /\ Enter("generateNotes")
    /\ UNCHANGED <<inputVars, active, calls, threw, publishResult, nextRelease, caught, raised,
                   result, emitted>>

JoinNotesKeepsEmpty(notes) ==
    \* the filter is missing
    [i \in 1..Len(notes) |-> notes[i].text]

JoinNotes(notes) ==
    \* notes.filter(n => n).join(...): the non-empty results, in order
    LET kept == SelectSeq(notes, LAMBDA n : n.text # <<>>)
    IN  [i \in 1..Len(kept) |-> kept[i].text]

dryRunIgnored(cfg) ==
    \* the dry-run return is missing
    FALSE

dryRunStops(cfg) ==
    \* if (config.dryRun) return the preview
    cfg.dryRun

GenerateNotesDone ==
    \* the notes are attached, then the dry-run return or step 5
    /\ StageComplete
    /\ pc = "generateNotes"
    /\ nextRelease' = IF nextRelease = NoRelease THEN nextRelease
                      ELSE [nextRelease EXCEPT !.notes = JoinNotes(results)]
    /\ IF dryRunStops(config)
       THEN /\ pc' = "done"
            /\ result' = [released |-> FALSE, returned |-> TRUE, dryRun |-> TRUE,
                          nextRelease |-> nextRelease']
            /\ UNCHANGED <<entered, idx, results>>
       ELSE /\ Enter("prepare")
            /\ UNCHANGED result
    /\ UNCHANGED <<inputVars, active, calls, threw, publishResult, caught, raised, emitted>>

PrepareDoneSkipsPublish ==
    \* step 6 is left out
    /\ StageComplete
    /\ pc = "prepare"
    /\ Enter("success")
    /\ UNCHANGED <<inputVars, active, calls, threw, publishResult, nextRelease, caught,
                   raised, result, emitted>>

PrepareDone ==
    /\ StageComplete
    /\ pc = "prepare"
    /\ Enter("publish")
    /\ UNCHANGED <<inputVars, active, calls, threw, publishResult, nextRelease, caught, raised,
                   result, emitted>>

PublishDone ==
    /\ StageComplete
    /\ pc = "publish"
    /\ publishResult' = results
    /\ Enter("success")
    /\ UNCHANGED <<inputVars, active, calls, threw, nextRelease, caught, raised, result, emitted>>

RECURSIVE Flat(_)
Flat(arrays) ==
    \* publishResult.flat()
    IF arrays = <<>> THEN <<>> ELSE Head(arrays).text \o Flat(Tail(arrays))

SuccessDone ==
    /\ StageComplete
    /\ pc = "success"
    /\ pc' = "done"
    /\ result' = [released |-> TRUE, returned |-> TRUE, nextRelease |-> nextRelease,
                  releases |-> Flat(publishResult)]
    /\ UNCHANGED <<inputVars, idx, active, calls, threw, entered, results, publishResult,
                   nextRelease, caught, raised, emitted>>

FailDone ==
    \* every failure hook is done: `throw error`
    /\ StageComplete
    /\ pc = "fail"
    /\ pc' = "done"
    /\ raised' = caught
    /\ UNCHANGED <<inputVars, idx, active, calls, threw, entered, results, publishResult,
                   nextRelease, caught, result, emitted>>

Next ==
    \/ Start
    \/ InvokeHook
    \/ HookReturns
    \/ HookThrows
    \/ FailHookThrows
    \/ VerifyConditionsDone
    \/ Analyze
    \/ VerifyReleaseDone
    \/ GenerateNotesDone
    \/ PrepareDone
    \/ PublishDone
    \/ SuccessDone
    \/ FailDone

Spec == Init /\ [][Next]_vars

\* ------------------------------------------------- repeated version runs
\* The resolver applied release after release, in a repository without tags
\* or with one four-part release of core, of 25.07 or of 25.08: each computed
\* version is
\* tagged (the tag name analyzeStep builds) before the next computation, the
\* package descriptor is rewritten to it when a plugin does so (the npm
\* plugin's prepare), and the calendar may move on to the next month.
InitVersions ==
    /\ config \in [plugins : {<<>>},
                   dryRun : {FALSE},
                   autoUpdateMonth : BOOLEAN,
                   versionFormat : {ThreePart, FourPart}]
    /\ env \in [workspace : {singleWorkspace, monoWorkspace, namedWorkspace},
                commits : {<<>>},
                changedFiles : {<<>>},
                diffFails : {FALSE},
                now : {<<25, 7>>}]
    /\ tags \in {{}, {TagOf(Version4(<<25, 7>>, 0, 1), core)},
                 {TagOf(Version4(<<25, 8>>, 0, 1), core)}}
    /\ \E declared \in {NoVersion, Version3(<<25, 7>>, 0), Version4(<<25, 7>>, 0, 0),
                         Version3(<<25, 8>>, 0)} :
        packageJson = [p \in Paths |-> declared]
    /\ pc = "idle"
    /\ RunIdle
    /\ emitted = <<>>

Resolve ==
    /\ pc = "idle"
    /\ Len(emitted) < MaxReleases
    /\ \E i \in 1..Len(discoverWorkspaces(env.workspace)) :
       \E releaseType \in {"patch", "minor", "major"} :
       \E rewritesDescriptor \in BOOLEAN :
        LET pkg == discoverWorkspaces(env.workspace)[i]
            options == Options(config)
            declared == packageJson[pkg.path]
            existingTags == existingTagsOf(gitTagList(tags), pkg.path)
            version == generateCalVerVersion(releaseType, pkg.path, options,
                                             gitTagList(tags), declared, env.now)
            release == ReleaseOf(pkg, NoAnalysis, version)
        IN  /\ emitted' = Append(emitted,
                [package |-> pkg,
                 releaseType |-> releaseType,
                 format |-> determineVersionFormat(options),
                 declared |-> declared,
                 autoUpdateMonth |-> options.autoUpdateMonth,
                 currentYearMonth |-> env.now,
                 targetYearMonth |-> targetYearMonthOf(options, declared, env.now),
                 isAutoMonthUpdate |-> isAutoMonthUpdateOf(options, declared, env.now),
                 isManualBump |-> isManualBumpOf(options, existingTags, declared, env.now),
                 tagsBefore |-> tags,
                 version |-> version])
            /\ tags' = tags \cup {release.tagName}
            /\ packageJson' = IF rewritesDescriptor
                              THEN [packageJson EXCEPT ![pkg.path] = version]
                              ELSE packageJson
    /\ UNCHANGED <<config, env, runVars>>

MonthPasses ==
    /\ pc = "idle"
    /\ env.now = <<25, 7>>
    /\ env' = [env EXCEPT !.now = <<25, 8>>]
    /\ UNCHANGED <<config, tags, packageJson, runVars, emitted>>

NextVersions ==
    \/ Resolve
    \/ MonthPasses

SpecVersions == InitVersions /\ [][NextVersions]_vars

\* ------------------------------------------------------ classifier alone
\* analyzeCommits applied to a commit log for every package of the
\* workspace, as the loop of analyzeStep does.
InitClassifier ==
    /\ config = [plugins |-> <<>>, dryRun |-> FALSE, autoUpdateMonth |-> FALSE,
                 versionFormat |-> "auto"]
    /\ env \in [workspace : {singleWorkspace, monoWorkspace, namedWorkspace},
                commits : LogsOver(ClassifierSamples, MaxCommits),
                changedFiles : {<<>>},
                diffFails : {FALSE},
                now : {<<25, 8>>}]
    /\ tags = {}
    /\ packageJson = [p \in Paths |-> NoVersion]
    /\ pc = "idle"
    /\ RunIdle
    /\ emitted = <<>>

Classify ==
    /\ pc = "idle"
    /\ pc' = "classified"
    /\ LET packages == discoverWorkspaces(env.workspace)
       IN  result' = [i \in 1..Len(packages) |->
                         [package |-> packages[i],
                          analysis |-> analyzeCommits(env.commits, packages[i].path)]]
    /\ UNCHANGED <<inputVars, idx, active, calls, threw, entered, results, publishResult,
                   nextRelease, caught, raised, emitted>>

NextClassifier == Classify

SpecClassifier == InitClassifier /\ [][NextClassifier]_vars

\* ------------------------------------------------------ change set alone
\* getChangedPackages applied to a package list, a commit log and the
\* output of the file listing (or its failure).
coreFile == packagesCore \o <<"/", "a">>
uiFile == packagesUi \o <<"/", "a">>
rootFile == <<"R">>
ChangedFileLists == {<<>>, <<coreFile>>, <<uiFile>>, <<rootFile>>, <<rootFile, uiFile>>}

\* Commit lines for the change set: scoped and unscoped, the "!" suffix, a
\* maintenance commit, and abbreviated hashes of 5 and 8 characters.
ChangeSetSamples ==
    {Commit("feat", core, FALSE, "plain"), Commit("fix", ui, FALSE, "plain"),
     Commit("feat", <<>>, FALSE, "plain"), Commit("chore", <<>>, FALSE, "plain"),
     Commit("feat", core, TRUE, "plain"),
     [Commit("feat", ui, FALSE, "plain") EXCEPT !.hashLen = 8],
     [Commit("feat", ui, FALSE, "plain") EXCEPT !.hashLen = 5]}

InitChangeSet ==
    /\ config = [plugins |-> <<>>, dryRun |-> FALSE, autoUpdateMonth |-> FALSE,
                 versionFormat |-> "auto"]
    /\ env \in [workspace : {singleWorkspace, monoWorkspace, namedWorkspace, emptyWorkspace},
                commits : LogsOver(ChangeSetSamples, MaxCommits),
                changedFiles : ChangedFileLists,
                diffFails : BOOLEAN,
                now : {<<25, 8>>}]
    /\ tags = {}
    /\ packageJson = [p \in Paths |-> NoVersion]
    /\ pc = "idle"
    /\ RunIdle
    /\ emitted = <<>>

MapChanges ==
    /\ pc = "idle"
    /\ pc' = "mapped"
    /\ result' = getChangedPackages(discoverWorkspaces(env.workspace), env.commits,
                                    env.changedFiles, env.diffFails)
    /\ UNCHANGED <<inputVars, idx, active, calls, threw, entered, results, publishResult,
                   nextRelease, caught, raised, emitted>>

NextChangeSet == MapChanges

SpecChangeSet == InitChangeSet /\ [][NextChangeSet]_vars

\* ---------------------------------------------------- format choice alone
\* determineVersionFormat applied to an options object: versionFormat unset
\* (""), "auto", one of the two formats or another text; the plugin list
\* absent or a list of definitions in any of their three forms.
FormatPluginDefinitions ==
    {PluginDefinition("string", npmPluginId), PluginDefinition("string", gitPluginId),
     PluginDefinition("array", npmPluginId), PluginDefinition("array", gitPluginId),
     PluginDefinition("object", npmPluginId), PluginDefinition("object", <<>>)}

RECURSIVE DefinitionLists(_)
DefinitionLists(n) ==
    IF n = 0 THEN {<<>>}
    ELSE LET shorter == DefinitionLists(n - 1)
         IN  shorter \cup
             {Append(l, q) : l \in {x \in shorter : Len(x) = n - 1},
                             q \in FormatPluginDefinitions}

InitFormat ==
    /\ \E given \in BOOLEAN :
        config \in [versionFormat : {"", "auto", ThreePart, FourPart, "semver"},
                    pluginsGiven : {given},
                    plugins : IF given THEN DefinitionLists(MaxPlugins) ELSE {<<>>},
                    autoUpdateMonth : {FALSE},
                    dryRun : {FALSE}]
    /\ env = [workspace |-> singleWorkspace, commits |-> <<>>, changedFiles |-> <<>>,
              diffFails |-> FALSE, now |-> <<25, 8>>]
    /\ tags = {}
    /\ packageJson = [p \in Paths |-> NoVersion]
    /\ pc = "idle"
    /\ RunIdle
    /\ emitted = <<>>

ResolveFormat ==
    /\ pc = "idle"
    /\ pc' = "resolved"
    /\ result' = determineVersionFormat(config)
    /\ UNCHANGED <<inputVars, idx, active, calls, threw, entered, results, publishResult,
                   nextRelease, caught, raised, emitted>>

NextFormat == ResolveFormat

SpecFormat == InitFormat /\ [][NextFormat]_vars

\* ------------------------------------------------ workspace resolver alone
\* detectMonorepoConfig followed by discoverWorkspaces, as analyzeStep
\* calls them, on the files of a repository.
InitWorkspace ==
    /\ config = [plugins |-> <<>>, dryRun |-> FALSE, autoUpdateMonth |-> FALSE,
                 versionFormat |-> "auto"]
    /\ \E files \in FileSystems :
        env = [workspace |-> singleWorkspace, commits |-> <<>>, changedFiles |-> <<>>,
               diffFails |-> FALSE, now |-> <<25, 8>>, files |-> files]
    /\ tags = {}
    /\ packageJson = [p \in Paths |-> NoVersion]
    /\ pc = "idle"
    /\ RunIdle
    /\ emitted = <<>>

ResolveWorkspace ==
    /\ pc = "idle"
    /\ pc' = "enumerated"
    /\ LET monorepoConfig == detectMonorepoConfig(env.files)
       IN  result' = IF monorepoConfig.raised
                     THEN [raised |-> TRUE, packages |-> <<>>]
                     ELSE [raised |-> FALSE,
                           packages |-> discoverWorkspaces(
                                            WorkspaceOn(env.files, monorepoConfig))]
    /\ UNCHANGED <<inputVars, idx, active, calls, threw, entered, results, publishResult,
                   nextRelease, caught, raised, emitted>>

NextWorkspace == ResolveWorkspace

SpecWorkspace == InitWorkspace /\ [][NextWorkspace]_vars

\* ================================================================= claims
StageOrder == <<"verifyConditions", "analyze", "verifyRelease", "generateNotes",
                "prepare", "publish", "success">>

StageRank(stage) ==
    \* the place of a lifecycle step in the documented order, Fail last
    IF stage = "fail" THEN Len(StageOrder) + 1
    ELSE CHOOSE i \in 1..Len(StageOrder) : StageOrder[i] = stage

CallsOf(stage) ==
    \* the plugins whose hook of the step was invoked, in invocation order
    LET cs == SelectSeq(calls, LAMBDA c : c.stage = stage)
    IN  [i \in 1..Len(cs) |-> cs[i].plugin]

Computed == analyzeStep(Options(config), env, gitTagList(tags), packageJson)

\* C1: in a dry run no Prepare, Publish or Success hook is ever invoked and
\* none of these steps is entered; a dry run that completes GenerateNotes
\* stops there and returns released = false, dryRun = true and the computed
\* nextRelease (with the notes attached).
C1_DryRunStopsAfterNotes ==
    config.dryRun =>
        /\ \A i \in 1..Len(calls) : calls[i].stage \notin {"prepare", "publish", "success"}
        /\ \A i \in 1..Len(entered) : entered[i] \notin {"prepare", "publish", "success"}
        /\ (pc = "done" /\ raised = NoError /\ nextRelease # NoRelease) =>
              /\ entered[Len(entered)] = "generateNotes"
              /\ nextRelease.releases = Computed.nextRelease.releases
              /\ result = [released |-> FALSE, returned |-> TRUE, dryRun |-> TRUE,
                           nextRelease |-> nextRelease]

C1_Witness ==
    /\ config.dryRun
    /\ pc = "done"
    /\ Len(StageList("prepare")) > 0
    /\ Len(StageList("publish")) > 0
    /\ CallsOf("generateNotes") # <<>>
    /\ result = [released |-> FALSE, returned |-> TRUE, dryRun |-> TRUE,
                 nextRelease |-> nextRelease]

\* C2: the lifecycle steps are entered in the fixed order VerifyConditions,
\* Analyze, VerifyRelease, GenerateNotes, Prepare, Publish, Success, none
\* twice and none skipped; when a hook of a step is invoked, every
\* registered hook of every earlier step has been invoked and has completed.
C2_StagesInFixedOrder ==
    /\ \A i \in 1..Len(entered) :
          entered[i] = "fail" \/ (i <= Len(StageOrder) /\ entered[i] = StageOrder[i])
    /\ \A i \in 1..Len(entered) : entered[i] = "fail" => i = Len(entered)
    /\ \A j \in 1..Len(calls) :
          calls[j].stage # "fail" =>
              /\ \A i \in 1..(j - 1) :
                    /\ StageRank(calls[i].stage) <= StageRank(calls[j].stage)
                    /\ StageRank(calls[i].stage) < StageRank(calls[j].stage)
                          => i \notin active /\ i \notin threw
              /\ \A s \in HookStages :
                    StageRank(s) < StageRank(calls[j].stage) => CallsOf(s) = StageList(s)

C2_Witness ==
    /\ pc = "done"
    /\ result.released
    /\ entered = StageOrder
    /\ \A s \in HookStages \ {"fail"} : Len(CallsOf(s)) >= 1
    /\ Len(CallsOf("publish")) >= 2

\* C3: within one step the hooks are invoked in the order of the configured
\* plugin list, each plugin's hook once, and a hook is invoked only after
\* every hook invoked before it has completed: never two hooks at a time.
C3_HooksOneAtATimeInOrder ==
    /\ Cardinality(active) <= 1
    /\ \A i, j \in 1..Len(calls) :
          i < j =>
              /\ i \notin active
              /\ calls[i].stage = calls[j].stage => calls[i].plugin < calls[j].plugin
    /\ \A s \in HookStages :
          /\ Len(CallsOf(s)) <= Len(StageList(s))
          /\ \A k \in 1..Len(CallsOf(s)) : CallsOf(s)[k] = StageList(s)[k]

C3_Witness ==
    /\ Len(calls) >= 2
    /\ calls[Len(calls)].stage = calls[Len(calls) - 1].stage
    /\ active = {Len(calls)}

FatalStages == {"verifyConditions", "verifyRelease", "prepare", "publish"}

\* C4: when a hook raises during VerifyConditions, VerifyRelease, Prepare or
\* Publish, no other hook of that step and no hook of a later non-failure
\* step is invoked afterwards, the Fail step is entered and every failure
\* hook invoked receives the raised error, and the call never returns a
\* result: it ends by raising an error.
C4_HookFailureIsFailFast ==
    \A c \in threw :
        calls[c].stage \in FatalStages =>
            /\ entered[Len(entered)] = "fail"
            /\ \A i \in (c + 1)..Len(calls) :
                  calls[i].stage = "fail" /\ calls[i].error = ErrorOf(c)
            /\ result = NoResult
            /\ pc \in {"fail", "done"}
            /\ pc = "done" => raised # NoError

C4_Witness ==
    /\ pc = "done"
    /\ raised # NoError
    /\ \E c \in threw :
          /\ calls[c].stage = "prepare"
          /\ Len(CallsOf("prepare")) < Len(StageList("prepare"))
          /\ Len(StageList("publish")) > 0
          /\ \E i \in (c + 1)..Len(calls) : calls[i].error = ErrorOf(c)

\* C5: in the Fail step every registered failure hook is invoked, in
\* registration order, even if an earlier failure hook raises an error.
C5_EveryFailureHookInvoked ==
    (pc = "done" /\ caught # NoError) => CallsOf("fail") = StageList("fail")

\* C6: whenever a run ends in Fail, the error that reaches the caller is the
\* error that triggered the Fail step, whatever the failure hooks do.
C6_OriginalErrorReachesCaller ==
    (pc = "done" /\ caught # NoError) => raised = caught

\* C7: when no package qualifies for release, a run that reaches Analyze
\* ends there with released = false; only VerifyConditions hooks have been
\* invoked: no VerifyRelease, GenerateNotes, Prepare, Publish, Success or
\* failure hook, and no error is raised.
C7_NoReleaseStopsAtAnalyze ==
    (~Computed.shouldRelease /\ pc \notin {"start", "verifyConditions", "fail"}
            /\ caught = NoError /\ \E i \in 1..Len(entered) : entered[i] = "analyze") =>
        /\ \A i \in 1..Len(calls) : calls[i].stage = "verifyConditions"
        /\ CallsOf("verifyConditions") = StageList("verifyConditions")
        /\ entered = <<"verifyConditions", "analyze">>
        /\ pc \in {"analyze", "done"}
        /\ pc = "done" => result = [released |-> FALSE, returned |-> TRUE] /\ raised = NoError

C7_Witness ==
    /\ pc = "done"
    /\ env.commits = <<choreAny>>
    /\ Len(discoverWorkspaces(env.workspace)) > 0
    /\ ~Computed.shouldRelease
    /\ CallsOf("verifyConditions") # <<>>
    /\ Len(StageList("verifyRelease")) > 0
    /\ Len(StageList("fail")) > 0
    /\ result = [released |-> FALSE, returned |-> TRUE]

\* ----------------------------------------------------- resolver claims
PackageNameOf(pkg) == IF pkg.name = root THEN <<>> ELSE pkg.name

OwnTags(e) ==
    \* the versions of the tags that were generated for the package of the
    \* computation e and existed when it was made
    {t.ver : t \in {x \in e.tagsBefore : x.name = PackageNameOf(e.package)}}

Candidates(e) ==
    \* the package's tags of the target year-month in the active format
    {v \in OwnTags(e) : v.ym = e.targetYearMonth
                        /\ v.parts = (IF e.format = ThreePart THEN 3 ELSE 4)}

TupleLess(v, w) == v.c3 < w.c3 \/ (v.c3 = w.c3 /\ v.c4 < w.c4)

Highest(S) == CHOOSE v \in S : \A w \in S : w = v \/ TupleLess(w, v)

MostRecentMonth(S) ==
    \* the year-month of the most recent version of S
    (CHOOSE v \in S : \A w \in S : ~YMGreater(w.ym, v.ym)).ym

NoBumpNoRoll(e) ==
    \* neither an auto-roll nor a manual bump: the target year-month is
    \* that of the package's most recent tag
    /\ ~e.isAutoMonthUpdate
    /\ ~e.isManualBump
    /\ OwnTags(e) # {} => MostRecentMonth(OwnTags(e)) = e.targetYearMonth

\* C8: for one package, one target year-month and one format, the versions
\* emitted by successive computations, each tagged before the next, are
\* strictly increasing in tuple order, and no emitted version equals a
\* version the package's tag history already holds.
C8_EmittedVersionsStrictlyIncrease ==
    /\ \A j \in 1..Len(emitted) : emitted[j].version \notin OwnTags(emitted[j])
    /\ \A i, j \in 1..Len(emitted) :
          (/\ i < j
           /\ emitted[i].package = emitted[j].package
           /\ emitted[i].targetYearMonth = emitted[j].targetYearMonth
           /\ emitted[i].format = emitted[j].format)
              => TupleLess(emitted[i].version, emitted[j].version)

\* C9: in FourPart format, when the package has a FourPart tag in the
\* target year-month and neither a manual bump nor an auto-roll occurred,
\* the next version comes from the highest such tag YY.MM.m.p: YY.MM.(m+1).1
\* for releaseType minor or major, YY.MM.m.(p+1) for patch.
C9_FourPartIncrementsHighestTag ==
    \A k \in 1..Len(emitted) :
        LET e == emitted[k] IN
        (e.format = FourPart /\ Candidates(e) # {} /\ NoBumpNoRoll(e)) =>
            LET top == Highest(Candidates(e))
            IN  e.version = IF e.releaseType \in {"minor", "major"}
                            THEN Version4(e.targetYearMonth, top.c3 + 1, 1)
                            ELSE Version4(e.targetYearMonth, top.c3, top.c4 + 1)

\* C10: in ThreePart format and single-package mode, with autoUpdateMonth
\* off, a declared version in the target year-month and an existing tag
\* v-YY.MM.n of that month, the next version is YY.MM.(n+1) for every
\* releaseType, n being the highest existing counter.
C10_ThreePartIncrementsHighestTag ==
    \A k \in 1..Len(emitted) :
        LET e == emitted[k] IN
        (/\ e.format = ThreePart
         /\ e.package = rootPackage
         /\ ~e.autoUpdateMonth
         /\ MatchesCalVer(e.declared)
         /\ e.declared.ym = e.targetYearMonth
         /\ Candidates(e) # {}
         /\ NoBumpNoRoll(e)) =>
            e.version = Version3(e.targetYearMonth, Highest(Candidates(e)).c3 + 1)

FirstReleaseOf(e) ==
    \* the first release of the target month in the active format
    IF e.format = ThreePart THEN Version3(e.targetYearMonth, 1)
    ELSE Version4(e.targetYearMonth, 0, 1)

IncrementOf(e) ==
    \* the increment of the highest candidate tag of the computation e
    LET top == Highest(Candidates(e))
    IN  IF e.format = ThreePart THEN Version3(e.targetYearMonth, top.c3 + 1)
        ELSE IF e.releaseType \in {"minor", "major"}
             THEN Version4(e.targetYearMonth, top.c3 + 1, 1)
             ELSE Version4(e.targetYearMonth, top.c3, top.c4 + 1)

\* C11: the resolver emits the first release of the target month (YY.MM.1 in
\* ThreePart, YY.MM.0.1 in FourPart) exactly when the package has no tag of
\* the target year-month and format, or a manual bump was flagged, or an
\* auto-roll occurred; in every other case it emits the increment of the
\* highest candidate tag.
C11_FirstReleaseExactlyWhenNoCandidate ==
    \A k \in 1..Len(emitted) :
        LET e == emitted[k] IN
        IF Candidates(e) = {} \/ e.isManualBump \/ e.isAutoMonthUpdate
        THEN e.version = FirstReleaseOf(e)
        ELSE e.version = IncrementOf(e)

\* C12: the target year-month of a computed version is the declared
\* version's year-month when the declared version parses as CalVer and
\* either autoUpdateMonth is off or the current year-month is not greater;
\* it is the current year-month when the declared version parses,
\* autoUpdateMonth is on and the current year-month is greater, and when the
\* declared version does not parse.  The computed version lies in it, so
\* with autoUpdateMonth off a release of a later month stays in the
\* declared month.
C12_TargetYearMonth ==
    \A k \in 1..Len(emitted) :
        LET e == emitted[k]
            parses == e.declared.parts \in {3, 4}
            later == YMGreater(e.currentYearMonth, e.declared.ym)
        IN  /\ (parses /\ (~e.autoUpdateMonth \/ ~later))
                    => e.targetYearMonth = e.declared.ym
            /\ (parses /\ e.autoUpdateMonth /\ later)
                    => e.targetYearMonth = e.currentYearMonth
            /\ ~parses => e.targetYearMonth = e.currentYearMonth
            /\ e.version.ym = e.targetYearMonth

C12_Witness ==
    \E k \in 1..Len(emitted) :
        LET e == emitted[k] IN
        /\ ~e.autoUpdateMonth
        /\ e.declared.parts \in {3, 4}
        /\ YMGreater(e.currentYearMonth, e.declared.ym)
        /\ e.version.ym = e.declared.ym

\* C13: the tag name generated for a computed version of a package
\* (v-<version>, or v-<version>-<packageName>-release), once it is in the tag
\* listing, is recognized by the resolver's tag-matching step for that same
\* package as a tag with that version, whatever name and path the package
\* has.
C13_TagRoundTrip ==
    \A k \in 1..Len(emitted) :
        LET e == emitted[k]
            generated == tagName(e.version, PackageNameOf(e.package))
            listing == gitTagList(e.tagsBefore \cup {generated})
            recognized == existingTagsOf(listing, e.package.path)
        IN  \E i \in 1..Len(recognized) : recognized[i] = e.version

\* -------------------------------------------------- classifier claims
HasScopeMarker(m) ==
    \* the message has a conventional prefix with a parenthesized scope
    m.type # "misc" /\ m.scope # <<>>

ScopeMatches(m, pkg) ==
    \* the scope names the package: its name or the basename of its path
    \* is found in the scope
    Includes(m.scope, pkg.name) \/ Includes(m.scope, Basename(pkg.path))

AttributedTo(m, pkg) ==
    \* the attribution the classifier is meant to make
    pkg.path = dot \/ ~HasScopeMarker(m) \/ ScopeMatches(m, pkg)

Qualifies(m) ==
    \* the commit falls in one of the categories feature, fix/performance,
    \* breaking of the classifier
    \/ m.type \in {"feat", "fix", "perf"} /\ ~m.bang
    \/ m.type # "misc" /\ m.bang
    \/ m.desc # "plain"

\* C14: the classifier returns the "none" value exactly when no commit
\* attributed to the package is classified as feature, fix/performance or
\* breaking; otherwise shouldRelease is true and releaseType is major if
\* hasBreakingChange, else minor if hasFeature, else patch.
C14_NoneExactlyWhenNothingQualifies ==
    pc = "classified" =>
        \A i \in 1..Len(result) :
            LET a == result[i].analysis
                mine == SelectSeq(env.commits,
                            LAMBDA m : AffectsPackage(m, result[i].package.path))
                qualifying == \E j \in 1..Len(mine) : Qualifies(mine[j])
            IN  /\ (a = NoAnalysis) <=> ~qualifying
                /\ a # NoAnalysis =>
                      /\ a.shouldRelease
                      /\ a.hasBreakingChange => a.releaseType = "major"
                      /\ (~a.hasBreakingChange /\ a.hasFeature) => a.releaseType = "minor"
                      /\ (~a.hasBreakingChange /\ ~a.hasFeature) => a.releaseType = "patch"

C14_Witness ==
    /\ pc = "classified"
    /\ \E i \in 1..Len(result) :
          /\ result[i].analysis # NoAnalysis
          /\ result[i].analysis.hasBreakingChange
          /\ result[i].analysis.hasFeature
          /\ result[i].analysis.releaseType = "major"

\* C15: in monorepo mode a commit with a scope marker is attributed only to
\* the packages whose name or path-basename matches the scope, and a commit
\* without a scope marker to every package: the analysis of each package is
\* the analysis of the commits so attributed to it.
C15_ScopedCommitsOnlyForTheirPackage ==
    pc = "classified" =>
        \A i \in 1..Len(result) :
            LET pkg == result[i].package
                mine == SelectSeq(env.commits, LAMBDA m : AttributedTo(m, pkg))
            IN  result[i].analysis = analyzeCommits(mine, dot)

\* -------------------------------------------------- change set claims
FileSelects(pkg) ==
    \* some changed file lies in the directory of the package
    \E i \in 1..Len(env.changedFiles) :
        StartsWith(env.changedFiles[i], pkg.path \o <<"/">>)

ScopeSelects(pkg) ==
    \* some commit has a scope marker naming the package
    \E i \in 1..Len(env.commits) :
        LET m == env.commits[i] IN
        /\ HasScopeMarker(m)
        /\ \/ Includes(pkg.name, m.scope)
           \/ Includes(pkg.path, m.scope)
           \/ Basename(pkg.path) = m.scope

\* C16: the change set mapper fails open.  In monorepo mode with a
\* non-empty package list it returns the full list when neither the file
\* pass nor the scope pass selects a package and when change detection
\* raises; in single-package mode it returns the one package.  Its result
\* is never empty for a non-empty list and holds only packages of the list.
C16_ChangeSetFailsOpen ==
    pc = "mapped" =>
        LET packages == discoverWorkspaces(env.workspace)
            listed == {packages[i] : i \in 1..Len(packages)}
        IN  /\ \A i \in 1..Len(result) : result[i] \in listed
            /\ Len(packages) > 0 => Len(result) > 0
            /\ env.workspace.type = "single" => result = <<rootPackage>>
            /\ env.diffFails => result = packages
            /\ (\A pkg \in listed : ~FileSelects(pkg) /\ ~ScopeSelects(pkg))
                    => result = packages

C16_Witness ==
    /\ pc = "mapped"
    /\ env.workspace = monoWorkspace
    /\ ~env.diffFails
    /\ Len(env.commits) > 0
    /\ \A pkg \in {corePackage, uiPackage} : ~FileSelects(pkg) /\ ~ScopeSelects(pkg)
    /\ result = <<corePackage, uiPackage>>

\* C17: the format resolver always returns a value: the explicit
\* versionFormat when it is set and is not "auto"; otherwise ThreePart when
\* some configured plugin identifier contains "npm"; otherwise FourPart,
\* also when no plugin list is given.
C17_FormatResolution ==
    pc = "resolved" =>
        LET explicit == config.versionFormat \notin {"", "auto"}
            npmNamed == /\ config.pluginsGiven
                        /\ \E i \in 1..Len(config.plugins) :
                              Includes(config.plugins[i].name, npm)
        IN  /\ explicit => result = config.versionFormat
            /\ (~explicit /\ npmNamed) => result = ThreePart
            /\ (~explicit /\ ~npmNamed) => result = FourPart

C17_Witness ==
    /\ pc = "resolved"
    /\ config.versionFormat = FourPart
    /\ \E i \in 1..Len(config.plugins) : Includes(config.plugins[i].name, npm)
    /\ result = FourPart

\* C18: the workspace resolver never raises: a missing, unreadable or
\* malformed monorepo configuration, a malformed root package descriptor
\* included, gives single-package mode, whose result is the one package
\* with path ".".
C18_WorkspaceResolverNeverRaises ==
    pc = "enumerated" =>
        LET files == env.files
            noConfiguration == files.marker = "none" /\ files.rootDescriptor # "workspaces"
            unreadable == files.marker # "none" /\ ~files.readable
        IN  /\ ~result.raised
            /\ (noConfiguration \/ unreadable) => result.packages = <<rootPackage>>

\* C19: in every run that passes VerifyConditions, each registered
\* analyzeCommits hook is invoked, after all verifyConditions hooks and
\* before any verifyRelease hook.
C19_AnalyzeCommitsHooksInvoked ==
    ("analyze" \in {entered[i] : i \in 1..Len(entered)} /\ pc # "analyze") =>
        /\ CallsOf("analyzeCommits") = StageList("analyzeCommits")
        /\ \A i, j \in 1..Len(calls) :
              calls[j].stage = "analyzeCommits" =>
                  /\ calls[i].stage = "verifyConditions" => i < j
                  /\ calls[i].stage = "verifyRelease" => j < i

\* C20: a manual bump is flagged if and only if autoUpdateMonth is disabled
\* and the candidate year-month differs from the year-month of the most
\* recent existing tag of the package; it is never flagged while
\* autoUpdateMonth is enabled, nor when the two year-months are equal.
C20_ManualBumpFlag ==
    \A k \in 1..Len(emitted) :
        LET e == emitted[k] IN
        e.isManualBump <=>
            /\ ~e.autoUpdateMonth
            /\ OwnTags(e) # {}
            /\ e.targetYearMonth # MostRecentMonth(OwnTags(e))

\* C21: tags whose part count is not that of the active format are ignored:
\* the version computed from a tag history is the version computed from
\* that history without its tags of the other format.
C21_OtherFormatTagsIgnored ==
    \A k \in 1..Len(emitted) :
        LET e == emitted[k]
            partCount == IF e.format = ThreePart THEN 3 ELSE 4
            sameFormat == {t \in e.tagsBefore : t.ver.parts = partCount}
        IN  e.version = generateCalVerVersion(e.releaseType, e.package.path,
                            Options(config), gitTagList(sameFormat), e.declared,
                            e.currentYearMonth)

Flags(a) ==
    \* the categories an analysis has set
    {f \in {"hasFeature", "hasFix", "hasBreakingChange"} : a[f]}

\* C22: classification is first-match-wins over the rules feature,
\* fix/performance, breaking: one commit sets at most one of hasFeature,
\* hasFix, hasBreakingChange and gets at most one annotation; a commit that
\* matches the feature rule sets hasFeature only.
C22_FirstMatchWins ==
    (pc = "classified" /\ Len(env.commits) = 1) =>
        \A i \in 1..Len(result) :
            LET a == result[i].analysis
                m == env.commits[1]
            IN  a # NoAnalysis =>
                    /\ Cardinality(Flags(a)) <= 1
                    /\ Len(a.releaseCommits) <= 1
                    /\ (m.type = "feat" /\ ~m.bang) => Flags(a) = {"hasFeature"}

IsMaintenance(m) ==
    \* message.match(/^(chore|docs|style|refactor|test|ci|build)(\(.+\))?:/),
    \* of which the sampled commit types hold chore
    m.type = "chore" /\ ~m.bang

\* C23: a maintenance-type commit never appears in releaseCommits and never
\* by itself makes shouldRelease true, whatever its message text holds, and
\* the analysis of a log is the analysis of that log without its
\* maintenance-type commits.
C23_MaintenanceCommitsAreInert ==
    pc = "classified" =>
        \A i \in 1..Len(result) :
            LET a == result[i].analysis
                others == SelectSeq(env.commits, LAMBDA m : ~IsMaintenance(m))
            IN  /\ a # NoAnalysis =>
                       \A k \in 1..Len(a.releaseCommits) :
                           ~IsMaintenance(a.releaseCommits[k].message)
                /\ others = <<>> => a = NoAnalysis
                /\ a = analyzeCommits(others, result[i].package.path)

\* C24: after Analyze the orchestrator writes the NextRelease record once, in
\* GenerateNotes, and only its notes: they become the non-empty results of
\* the notes-generating hooks in registration order; the releases (package,
\* version, analysis, tagName of each) stay as Analyze computed them.
C24_OnlyNotesWritten ==
    [][(nextRelease # NoRelease /\ nextRelease' # nextRelease) =>
          /\ pc = "generateNotes"
          /\ nextRelease.notes = NotesUnset
          /\ nextRelease' = [nextRelease EXCEPT !.notes = JoinNotes(results)]
          /\ nextRelease.releases =
                 analyzeStep(Options(config), env, gitTagList(tags),
                             packageJson).nextRelease.releases
          /\ \A i \in 1..Len(nextRelease'.notes) :
                 /\ nextRelease'.notes[i] # <<>>
                 /\ \A j \in 1..(i - 1) :
                        nextRelease'.notes[j][1] < nextRelease'.notes[i][1]]_vars

C24_Witness ==
    /\ pc = "done"
    /\ result.released
    /\ Len(calls) > 0
    /\ \E c \in 1..Len(calls) : calls[c].stage = "generateNotes"
    /\ nextRelease # NoRelease
    /\ Len(nextRelease.notes) = 2
    /\ nextRelease.notes[1] # nextRelease.notes[2]

HasTagShape(t, packagePath) ==
    \* the tag, taken alone, passes the resolver's filters for the package:
    \* "-<basename>-release" after a CalVer version for a package path, a
    \* bare CalVer version for the repository root
    /\ MatchesCalVer(t.ver)
    /\ IF packagePath = dot THEN t.name = <<>>
       ELSE /\ t.name # <<>>
            /\ Includes(TagTail(t), <<"-">> \o Basename(packagePath) \o releaseSuffix)

\* C25: every tag of the listing is considered individually: when the
\* listing holds N >= 1 tags of the package's CalVer tag shape, the parsed
\* existing-tag sequence is the sequence of those N versions in listing
\* order.
C25_EveryListedTagIsParsed ==
    \A k \in 1..Len(emitted) :
        LET e == emitted[k]
            listed == SelectSeq(SortedTags(e.tagsBefore),
                                LAMBDA t : HasTagShape(t, e.package.path))
        IN  Len(listed) >= 1 =>
                existingTagsOf(gitTagList(e.tagsBefore), e.package.path)
                    = [i \in 1..Len(listed) |-> listed[i].ver]

\* C26: in a monorepo the version computed for a package depends only on
\* the tags generated for that package: the existing-tag list and the
\* version are those computed from the listing without the tags of the other
\* packages.
C26_PackagesAreIndependent ==
    \A k \in 1..Len(emitted) :
        LET e == emitted[k]
            own == {t \in e.tagsBefore : t.name = PackageNameOf(e.package)}
        IN  e.package.path # dot =>
                /\ existingTagsOf(gitTagList(e.tagsBefore), e.package.path)
                       = existingTagsOf(gitTagList(own), e.package.path)
                /\ e.version = generateCalVerVersion(e.releaseType, e.package.path,
                                   Options(config), gitTagList(own), e.declared,
                                   e.currentYearMonth)

SeqToSet(list) == {list[i] : i \in 1..Len(list)}

\* C27: the change-set mapper and the classifier agree on scoped commits:
\* for a commit line "<hash> <type>(<scope>): ..." with a hash of any length
\* and the packages of a monorepo, the packages the mapper adds because of
\* the commit's scope are the packages the classifier attributes it to.
C27_MapperAgreesWithClassifier ==
    (pc = "mapped" /\ env.workspace.type # "single") =>
        LET packages == discoverWorkspaces(env.workspace) IN
        \A i \in 1..Len(env.commits) :
            LET m == env.commits[i] IN
            (HasScopeMarker(m) /\ ~m.bang) =>
                SeqToSet(ScopeOwners(packages, <<m>>))
                    = {pkg \in SeqToSet(packages) : AffectsPackage(m, pkg.path)}

\* C28: for every configuration type detection reports, the resolver
\* returns a non-empty package list; when a marker file is found but no
\* package is enumerated from it, the list is the single-package list.
C28_PackageListNeverEmpty ==
    (pc = "enumerated" /\ ~result.raised) =>
        /\ Len(result.packages) >= 1
        /\ (/\ env.files.marker # "none"
            /\ expandGlobPatterns(env.files) = <<>>) =>
                result.packages = <<rootPackage>>

\* C29: an error raised by a Success hook, after every Publish hook has
\* completed, is handled like any other hook failure: no further Success
\* hook is invoked, every failure hook is invoked with that error, and the
\* run raises instead of returning released = true.
C29_SuccessHookFailure ==
    \A c \in threw :
        calls[c].stage = "success" =>
            /\ CallsOf("publish") = StageList("publish")
            /\ \A i \in (c + 1)..Len(calls) :
                  calls[i].stage = "fail" /\ calls[i].error = ErrorOf(c)
            /\ result = NoResult
            /\ pc \in {"fail", "done"}
            /\ pc = "done" => /\ raised # NoError
                              /\ CallsOf("fail") = StageList("fail")

\* C30: if loading a configured plugin fails, the run raises the load error
\* before any lifecycle hook is invoked: no step is entered, no
\* verifyConditions hook and no failure hook of the plugins that did load is
\* called, and no result is returned.
C30_LoadFailureRaisesBeforeHooks ==
    (\E i \in 1..Len(config.plugins) : ~config.plugins[i].loads) =>
        /\ calls = <<>>
        /\ entered = <<>>
        /\ caught = NoError
        /\ result = NoResult
        /\ pc \in {"start", "done"}
        /\ pc = "done" => raised = LoadError(LoadFailure(config))

C30_Witness ==
    /\ pc = "done"
    /\ raised.stage = "load"
    /\ raised.plugin = 2
    /\ "fail" \in config.plugins[1].hooks
    /\ "verifyConditions" \in config.plugins[1].hooks
    /\ calls = <<>>

====
